---- MODULE Spec2Model ----
(***************************************************************************)
(* Heating-zone controller: ThermoZonaClimate (climate.py) and             *)
(* GasBoilerController (boiler.py).                                        *)
(*                                                                         *)
(* Temperatures are fixed-point integers in hundredths of a degree Celsius *)
(* (21.0 C = 2100); times are integer seconds.  Every coroutine is cut at  *)
(* its await points: a service call takes effect when it is issued and the *)
(* coroutine resumes in a later step, so other coroutines interleave       *)
(* exactly where the event loop lets them.                                 *)
(***************************************************************************)
EXTENDS Integers, Sequences, FiniteSets, TLC

VARIABLES
    cfg,               \* configuration: entry.data, entry.options, constructor arguments
    \* ---- GasBoilerController ----
    thermostats,       \* self._thermostats
    target_flow_temp,  \* self._target_flow_temp
    is_boiler_on,      \* self._is_boiler_on
    listening,         \* self._remove_outside_temp_listener is set
    boilerTasks,       \* suspended _async_turn_on_boiler / _async_turn_off_boiler_safe coroutines
    \* ---- ThermoZonaClimate, one per zone ----
    hvac_mode,         \* self._hvac_mode
    is_heating,        \* self._is_heating
    target_temperature,\* self._target_temperature
    zoneTasks,         \* suspended _async_turn_on_zone / _async_turn_off_zone coroutines
    \* ---- host platform ----
    floor_state,       \* state of each floor sensor
    outside_state,     \* state of the outside temperature sensor
    hass_heating,      \* "heating" attribute last written for each zone entity
    valve_cmd,         \* last switch command each valve received
    switch_cmd,        \* last command the boiler switch received
    dev_mode,          \* last hvac_mode the heat-source device received
    dev_setpoint,      \* last set-point the heat-source device received
    \* ---- PWMController ----
    regulator,         \* the regulator object: its parameters and its state
    time,              \* the clock its callers read
    \* ---- observation ----
    fall,              \* seconds since the falling edge of the current on-period, -1 if none
    ev                 \* what the last step did

vars == <<cfg, thermostats, target_flow_temp, is_boiler_on,
          listening, boilerTasks, hvac_mode, is_heating,
          target_temperature, zoneTasks, floor_state, outside_state, hass_heating, valve_cmd, switch_cmd, dev_mode,
          dev_setpoint, regulator, time, fall, ev>>

boilerVars == <<thermostats, target_flow_temp, is_boiler_on,
                listening, boilerTasks, dev_mode, dev_setpoint, fall>>

zoneVars == <<hvac_mode, is_heating, target_temperature, zoneTasks,
              hass_heating, valve_cmd, switch_cmd>>

sensorVars == <<floor_state, outside_state>>

pwmVars == <<regulator, time>>

(***************************************************************************)
(* Bounds of the model.                                                    *)
(***************************************************************************)
MaxBoilerTasks == 2     \* boiler coroutines suspended at the same time
MaxZoneTasks == 2       \* zone coroutines suspended at the same time
TickSeconds == 60       \* seconds the clock advances in one step

Zones == {"z1", "z2"}
Valves == {"v1", "v2"}
FloorSensors == {"f1"}

\* A sensor state as hass.states.get returns it: kind "missing" is None; "unknown"
\* and "unavailable" are the two reserved states; "text" is any other string float()
\* rejects; "num" is a string float() accepts, with its value in val.
Num(v) == [kind |-> "num", val |-> v]
Bad(k) == [kind |-> k, val |-> 0]
BadStates == {Bad("missing"), Bad("unknown"), Bad("unavailable"), Bad("text")}

Max(a, b) == IF a >= b THEN a ELSE b
Min(a, b) == IF a <= b THEN a ELSE b

InSeq(x, s) == \E i \in 1..Len(s) : s[i] = x
RemoveAt(s, i) == SubSeq(s, 1, i - 1) \o SubSeq(s, i + 1, Len(s))

(***************************************************************************)
(* What the last step did, for the steps that may leave everything else    *)
(* as it was or whose inputs are gone after them: op "update" is           *)
(* async_update_boiler_state and the demand it computed; "off" is a        *)
(* shutdown proceeding after its sleep; "no_reading" and "no_outside" are  *)
(* the two warnings for a sensor without a reading; "flow" is              *)
(* _async_update_flow_temperature on an outside reading; "start" and       *)
(* "stop" are a control evaluation beginning a turn-on or a turn-off on    *)
(* the reading it had; "duty", "on_time" (reading: the duty cycle given)   *)
(* and "should_be_on" (demand: its answer, since: cycle_start before the   *)
(* call) and "reset" are the calls of the regulator; "raised" is a service *)
(* call of a zone raising (demand: in a turn-on).  Any other step writes   *)
(* NoEv.                                                                   *)
(***************************************************************************)
NoEv == [op |-> "", zone |-> "", demand |-> FALSE, was_on |-> FALSE,
         renewed |-> FALSE, since |-> -1, reading |-> 0]

(***************************************************************************)
(* GasBoilerController                                                     *)
(***************************************************************************)


\* self._valve_close_time, in seconds
valve_close_time == 120

\* thermostat._are_circuits_on(): the zone is calling for heat.
are_circuits_on(z) == is_heating[z]

count_active_zones ==
    Cardinality({i \in 1..Len(thermostats) : are_circuits_on(thermostats[i])})

\* _get_outside_temperature without its test for the reserved states: their value is read
get_outside_temperature_unfiltered(state) ==
    IF state.kind \in {"missing", "text"} THEN Bad("missing") ELSE Num(state.val)

\* float(state.state) behind the None / unknown / unavailable tests and the ValueError
\* handler: the reading, or None (any kind but "num").
get_outside_temperature(state) == IF state \in BadStates THEN Bad("missing") ELSE state

\* max of the registered thermostats' target temperatures, -1 for None
get_warmest_zone_target ==
    IF thermostats = <<>> THEN -1
    ELSE LET targets == {target_temperature[thermostats[i]] : i \in 1..Len(thermostats)}
         IN CHOOSE t \in targets : \A u \in targets : u <= t

DefaultWarmest == 2000

\* the curve clamped from above only
FlowTemperatureNoFloor(outside) ==
    LET warmest == IF get_warmest_zone_target = -1 THEN DefaultWarmest
                   ELSE get_warmest_zone_target
        base_water_temp == warmest + cfg.heating_base_offset
        weather_compensation == ((warmest - outside) * cfg.weather_slope_heat) \div 100
        target_temp == base_water_temp + weather_compensation + cfg.flow_curve_offset
    IN Min(cfg.max_water_temp, target_temp)

\* The weather-compensation curve and its clamp; weather_slope_heat is in hundredths.
FlowTemperature(outside) ==
    LET warmest == IF get_warmest_zone_target = -1 THEN DefaultWarmest
                   ELSE get_warmest_zone_target
        base_water_temp == warmest + cfg.heating_base_offset
        weather_compensation == ((warmest - outside) * cfg.weather_slope_heat) \div 100
        target_temp == base_water_temp + weather_compensation + cfg.flow_curve_offset
    IN Max(cfg.min_water_temp, Min(cfg.max_water_temp, target_temp))

\* _async_update_flow_temperature with the outside sensor in state `state`: the
\* set-point call is the coroutine's last statement, so nothing of it is left to resume.
OutsideEv(state) ==
    IF get_outside_temperature(state).kind # "num"
    THEN [NoEv EXCEPT !.op = "no_outside"]
    ELSE [NoEv EXCEPT !.op = "flow", !.reading = get_outside_temperature(state).val]

async_update_flow_temperature(state) ==
    LET outside == get_outside_temperature(state) IN
    IF outside.kind # "num"
    THEN UNCHANGED <<target_flow_temp, dev_setpoint>>
    ELSE /\ target_flow_temp' = FlowTemperature(outside.val)
         /\ dev_setpoint' = IF is_boiler_on /\ cfg.opentherm_device
                            THEN FlowTemperature(outside.val) ELSE dev_setpoint

\* async_setup, the outside sensor being in state s
async_setup(s) ==
    /\ ~listening
    /\ s = outside_state
    /\ listening' = TRUE
    /\ async_update_flow_temperature(s)
    /\ ev' = OutsideEv(s)
    /\ UNCHANGED <<cfg, pwmVars, thermostats, is_boiler_on, boilerTasks, dev_mode, fall, zoneVars, sensorVars>>

register_thermostat(z) ==
    /\ ~InSeq(z, thermostats)
    /\ thermostats' = Append(thermostats, z)
    /\ ev' = NoEv
    /\ UNCHANGED <<cfg, pwmVars, target_flow_temp, is_boiler_on, listening, boilerTasks, dev_mode, dev_setpoint, fall, zoneVars,
                   sensorVars>>

\* The outside sensor changes state to s; the listener of async_setup, once
\* registered, runs _async_outside_temp_changed.
OutsideTempChanged(s) ==
    /\ IF listening
       THEN async_update_flow_temperature(s)
       ELSE UNCHANGED <<target_flow_temp, dev_setpoint>>
    /\ outside_state' = s
    /\ ev' = IF listening THEN OutsideEv(s) ELSE NoEv
    /\ UNCHANGED <<cfg, pwmVars, thermostats, is_boiler_on, listening, boilerTasks, dev_mode, fall, zoneVars, floor_state>>

\* A suspended boiler coroutine: kind "on" is _async_turn_on_boiler, suspended in its
\* set_hvac_mode call ("heat_sent") or its set_temperature call ("temp_sent"); kind
\* "off" is _async_turn_off_boiler_safe, suspended in its sleep ("sleep", timer seconds
\* left) or its set_hvac_mode call ("off_sent").  renewed is an observation: an update
\* saw demand before this shutdown's sleep was over.
BoilerTask(kind, pc, timer) ==
    [kind |-> kind, pc |-> pc, timer |-> timer, renewed |-> FALSE]

Sleeping(t) == t.kind = "off" /\ t.pc = "sleep"

ShutdownPending == \E i \in 1..Len(boilerTasks) : boilerTasks[i].kind = "off"

MarkRenewed(tasks) ==
    [i \in 1..Len(tasks) |->
        IF Sleeping(tasks[i]) /\ tasks[i].timer > 0
        THEN [tasks[i] EXCEPT !.renewed = TRUE] ELSE tasks[i]]

\* _async_turn_on_boiler up to its first await
async_turn_on_boiler ==
    IF ~cfg.opentherm_device
    THEN /\ is_boiler_on' = TRUE
         /\ fall' = -1
         /\ boilerTasks' = MarkRenewed(boilerTasks)
         /\ UNCHANGED <<dev_mode>>
    ELSE /\ Len(boilerTasks) < MaxBoilerTasks
         /\ dev_mode' = "heat"
         /\ boilerTasks' = Append(MarkRenewed(boilerTasks), BoilerTask("on", "heat_sent", 0))
         /\ UNCHANGED <<is_boiler_on, fall>>

\* _async_turn_off_boiler_safe up to its sleep
async_turn_off_boiler_safe ==
    /\ is_boiler_on
    /\ Len(boilerTasks) < MaxBoilerTasks
    /\ boilerTasks' = Append(boilerTasks, BoilerTask("off", "sleep", valve_close_time))
    /\ fall' = IF fall = -1 THEN 0 ELSE fall
    /\ UNCHANGED <<is_boiler_on, dev_mode>>

async_update_boiler_state ==
    LET active_zones == count_active_zones
        should_be_on == active_zones > 0
    IN /\ IF should_be_on /\ ~is_boiler_on
          THEN async_turn_on_boiler
          ELSE IF ~should_be_on /\ is_boiler_on
          THEN async_turn_off_boiler_safe
          ELSE /\ boilerTasks' = IF should_be_on THEN MarkRenewed(boilerTasks)
                                 ELSE boilerTasks
               /\ UNCHANGED <<is_boiler_on, dev_mode, fall>>
       /\ ev' = [NoEv EXCEPT !.op = "update", !.demand = should_be_on,
                             !.was_on = is_boiler_on]
       /\ UNCHANGED <<cfg, pwmVars, thermostats, target_flow_temp, listening,
                      dev_setpoint, zoneVars, sensorVars>>

\* _async_turn_on_boiler resumes after set_hvac_mode and calls set_temperature
TurnOnSetTemperature(i) ==
    /\ boilerTasks[i].kind = "on" /\ boilerTasks[i].pc = "heat_sent"
    /\ dev_setpoint' = target_flow_temp
    /\ boilerTasks' = [boilerTasks EXCEPT ![i].pc = "temp_sent"]
    /\ ev' = NoEv
    /\ UNCHANGED <<cfg, pwmVars, thermostats, target_flow_temp, is_boiler_on, listening, dev_mode, fall, zoneVars, sensorVars>>

\* _async_turn_on_boiler resumes after set_temperature and marks the boiler on
TurnOnFinish(i) ==
    /\ boilerTasks[i].kind = "on" /\ boilerTasks[i].pc = "temp_sent"
    /\ is_boiler_on' = TRUE
    /\ fall' = IF is_boiler_on THEN fall ELSE -1
    /\ boilerTasks' = RemoveAt(boilerTasks, i)
    /\ ev' = [NoEv EXCEPT !.op = "on_done", !.was_on = is_boiler_on]
    /\ UNCHANGED <<cfg, pwmVars, thermostats, target_flow_temp, listening,
                   dev_mode, dev_setpoint, zoneVars, sensorVars>>

\* _async_turn_off_boiler_safe resumes after its sleep
TurnOffAfterWait(i) ==
    LET t == boilerTasks[i] IN
    /\ Sleeping(t) /\ t.timer = 0
    /\ IF ~cfg.opentherm_device
       THEN /\ is_boiler_on' = FALSE
            /\ fall' = -1
            /\ boilerTasks' = RemoveAt(boilerTasks, i)
            /\ UNCHANGED dev_mode
       ELSE /\ dev_mode' = "off"
            /\ boilerTasks' = [boilerTasks EXCEPT ![i].pc = "off_sent"]
            /\ UNCHANGED <<is_boiler_on, fall>>
    /\ ev' = [NoEv EXCEPT !.op = "off", !.was_on = is_boiler_on,
                          !.renewed = t.renewed, !.since = fall]
    /\ UNCHANGED <<cfg, pwmVars, thermostats, target_flow_temp, listening, dev_setpoint, zoneVars, sensorVars>>

\* _async_turn_off_boiler_safe resumes after set_hvac_mode and marks the boiler off
TurnOffFinish(i) ==
    /\ boilerTasks[i].kind = "off" /\ boilerTasks[i].pc = "off_sent"
    /\ is_boiler_on' = FALSE
    /\ fall' = -1
    /\ boilerTasks' = RemoveAt(boilerTasks, i)
    /\ ev' = [NoEv EXCEPT !.op = "off_done", !.was_on = is_boiler_on,
                          !.renewed = boilerTasks[i].renewed]
    /\ UNCHANGED <<cfg, pwmVars, thermostats, target_flow_temp, listening,
                   dev_mode, dev_setpoint, zoneVars, sensorVars>>

\* The clock advances while some shutdown sleeps.
Tick ==
    /\ \E i \in 1..Len(boilerTasks) : Sleeping(boilerTasks[i]) /\ boilerTasks[i].timer > 0
    /\ boilerTasks' = [i \in 1..Len(boilerTasks) |->
                          IF Sleeping(boilerTasks[i])
                          THEN [boilerTasks[i] EXCEPT
                                   !.timer = Max(0, boilerTasks[i].timer - TickSeconds)]
                          ELSE boilerTasks[i]]
    /\ fall' = IF fall = -1 THEN fall
               ELSE Min(valve_close_time, fall + TickSeconds)
    /\ ev' = NoEv
    /\ UNCHANGED <<cfg, pwmVars, thermostats, target_flow_temp, is_boiler_on, listening, dev_mode, dev_setpoint, zoneVars,
                   sensorVars>>

(***************************************************************************)
(* ThermoZonaClimate                                                       *)
(***************************************************************************)
\* Names and entity ids are sequences of characters.
Lower(c) == IF c = "A" THEN "a" ELSE IF c = "B" THEN "b" ELSE c

\* zone["name"].lower().replace(" ", "_").replace("-", "_")
SafeName(name) ==
    [i \in 1..Len(name) |->
        LET c == Lower(name[i]) IN IF c = " " \/ c = "-" THEN "_" ELSE c]

\* f"climate.{safe_name}"
ZoneEntityId(name) == <<"climate.">> \o SafeName(name)

ZoneConfig(z) == cfg.zones[z]
ZoneValves(z) == ZoneConfig(z).valves

\* hass.states.get(entity_id) is a state whose "heating" attribute is true
HeatingAttribute(entity_id) ==
    \E x \in Zones : cfg.zones[x].entity_id = entity_id /\ hass_heating[x]

\* current_temperature without its test for the reserved states: their value is read
current_temperature_unfiltered(state) ==
    IF state.kind \in {"missing", "text"} THEN Bad("missing") ELSE Num(state.val)

\* the room reading as current_temperature returns it
current_temperature(state) == IF state \in BadStates THEN Bad("missing") ELSE state

\* the floor-temperature test with > for >=
FloorLimitExceeded(valve_config) ==
    /\ valve_config.floor_sensor # ""
    /\ floor_state[valve_config.floor_sensor] \notin BadStates
    /\ floor_state[valve_config.floor_sensor].val > valve_config.max_floor_temp

\* the floor-temperature test of _async_turn_on_zone: the valve is skipped
FloorLimitReached(valve_config) ==
    /\ valve_config.floor_sensor # ""
    /\ floor_state[valve_config.floor_sensor] \notin BadStates
    /\ floor_state[valve_config.floor_sensor].val >= valve_config.max_floor_temp

is_valve_needed_by_other_zone(z, valve_switch) ==
    \E y \in Zones :
        /\ cfg.zones[y].name # ZoneConfig(z).name
        /\ HeatingAttribute(ZoneEntityId(cfg.zones[y].name))
        /\ \E i \in 1..Len(cfg.zones[y].valves) : cfg.zones[y].valves[i].valve = valve_switch

is_any_zone_heating ==
    \E y \in Zones : HeatingAttribute(ZoneEntityId(cfg.zones[y].name))

\* the turn-on loop leaving at the first valve at its floor limit instead of going on
NextOpenBreak(z, from) ==
    IF from < Len(ZoneValves(z)) /\ ~FloorLimitReached(ZoneValves(z)[from + 1])
    THEN from + 1 ELSE 0

\* first valve after index `from` the turn-on loop commands, 0 when the loop ends
NextOpen(z, from) ==
    LET ks == {k \in (from + 1)..Len(ZoneValves(z)) : ~FloorLimitReached(ZoneValves(z)[k])}
    IN IF ks = {} THEN 0 ELSE CHOOSE k \in ks : \A j \in ks : k <= j

\* first valve after index `from` the turn-off loop commands, 0 when the loop ends
NextClose(z, from) ==
    LET ks == {k \in (from + 1)..Len(ZoneValves(z)) :
                  ~is_valve_needed_by_other_zone(z, ZoneValves(z)[k].valve)}
    IN IF ks = {} THEN 0 ELSE CHOOSE k \in ks : \A j \in ks : k <= j

\* A suspended zone coroutine: kind "on" is _async_turn_on_zone, kind "off" is
\* _async_turn_off_zone; suspended in the boiler switch call ("boiler_sent") or in the
\* switch call of valve number idx ("valve_sent").
ZoneTask(z, kind, pc, idx) == [zone |-> z, kind |-> kind, pc |-> pc, idx |-> idx]

PutTask(i, t) == IF i = 0 THEN Append(zoneTasks, t) ELSE [zoneTasks EXCEPT ![i] = t]
DropTask(i) == IF i = 0 THEN zoneTasks ELSE RemoveAt(zoneTasks, i)
CanSuspend(i) == i # 0 \/ Len(zoneTasks) < MaxZoneTasks

\* self._is_heating = value; self.async_write_ha_state()
SetHeating(z, value) ==
    /\ is_heating' = [is_heating EXCEPT ![z] = value]
    /\ hass_heating' = [hass_heating EXCEPT ![z] = value]

\* the valve loop of _async_turn_on_zone after valve number `from`, to the next await
\* or to the end of the turn-on; i is the coroutine's place in zoneTasks, 0 if new
TurnOnValves(z, from, i) ==
    LET k == NextOpen(z, from) IN
    IF k = 0
    THEN /\ SetHeating(z, TRUE)
         /\ zoneTasks' = DropTask(i)
         /\ UNCHANGED <<valve_cmd, switch_cmd>>
    ELSE /\ CanSuspend(i)
         /\ valve_cmd' = [valve_cmd EXCEPT ![ZoneValves(z)[k].valve] = "on"]
         /\ zoneTasks' = PutTask(i, ZoneTask(z, "on", "valve_sent", k))
         /\ UNCHANGED <<is_heating, hass_heating, switch_cmd>>

\* _async_turn_on_zone from its start
async_turn_on_zone(z) ==
    IF cfg.boiler_switch
    THEN /\ CanSuspend(0)
         /\ switch_cmd' = "on"
         /\ zoneTasks' = PutTask(0, ZoneTask(z, "on", "boiler_sent", 0))
         /\ UNCHANGED <<is_heating, hass_heating, valve_cmd>>
    ELSE TurnOnValves(z, 0, 0)

\* the valve loop of _async_turn_off_zone after valve number `from`, then its boiler
\* test, to the next await or to the end of the turn-off
TurnOffValves(z, from, i) ==
    LET k == NextClose(z, from) IN
    IF k # 0
    THEN /\ CanSuspend(i)
         /\ valve_cmd' = [valve_cmd EXCEPT ![ZoneValves(z)[k].valve] = "off"]
         /\ zoneTasks' = PutTask(i, ZoneTask(z, "off", "valve_sent", k))
         /\ UNCHANGED <<is_heating, hass_heating, switch_cmd>>
    ELSE IF ~is_any_zone_heating /\ cfg.boiler_switch
    THEN /\ CanSuspend(i)
         /\ switch_cmd' = "off"
         /\ zoneTasks' = PutTask(i, ZoneTask(z, "off", "boiler_sent", 0))
         /\ UNCHANGED <<is_heating, hass_heating, valve_cmd>>
    ELSE /\ SetHeating(z, FALSE)
         /\ zoneTasks' = DropTask(i)
         /\ UNCHANGED <<valve_cmd, switch_cmd>>

\* the hysteresis rule with <= for <
ShouldHeatInclusive(heating, current_temp, target, hysteresis) ==
    IF ~heating THEN current_temp <= target - hysteresis
    ELSE current_temp <= target + hysteresis

\* the hysteresis rule of _async_control_zone
ShouldHeat(heating, current_temp, target, hysteresis) ==
    IF ~heating THEN current_temp < target - hysteresis
    ELSE current_temp < target + hysteresis

\* _async_control_zone acting on the level: a zone that is heating and should heat
\* sends its turn-on commands again
async_control_zone_level(z, mode, target, state) ==
    LET current_temp == current_temperature(state)
        should_heat == /\ current_temp.kind = "num"
                       /\ ShouldHeat(is_heating[z], current_temp.val, target,
                                     ZoneConfig(z).hysteresis)
        nothing == UNCHANGED <<is_heating, hass_heating, valve_cmd, switch_cmd, zoneTasks>>
    IN /\ ev' = NoEv
       /\ IF mode = "off"
          THEN (IF is_heating[z] THEN TurnOffValves(z, 0, 0) ELSE nothing)
          ELSE IF current_temp.kind # "num" THEN nothing
          ELSE IF should_heat THEN async_turn_on_zone(z)
          ELSE IF is_heating[z] THEN TurnOffValves(z, 0, 0)
          ELSE nothing

\* _async_control_zone with the zone in mode `mode`, its target `target` and its room
\* sensor in state `state`, to its first await or its end
async_control_zone(z, mode, target, state) ==
    LET current_temp == current_temperature(state)
        hysteresis == ZoneConfig(z).hysteresis
        should_heat == /\ current_temp.kind = "num"
                       /\ ShouldHeat(is_heating[z], current_temp.val, target, hysteresis)
        nothing == UNCHANGED <<is_heating, hass_heating, valve_cmd, switch_cmd, zoneTasks>>
    IN IF mode = "off"
       THEN /\ IF is_heating[z] THEN TurnOffValves(z, 0, 0) ELSE nothing
            /\ ev' = NoEv
       ELSE IF current_temp.kind # "num"
       THEN /\ nothing
            /\ ev' = [NoEv EXCEPT !.op = "no_reading", !.zone = z]
       ELSE IF should_heat /\ ~is_heating[z]
       THEN /\ async_turn_on_zone(z)
            /\ ev' = [NoEv EXCEPT !.op = "start", !.zone = z, !.reading = current_temp.val]
       ELSE IF ~should_heat /\ is_heating[z]
       THEN /\ TurnOffValves(z, 0, 0)
            /\ ev' = [NoEv EXCEPT !.op = "stop", !.zone = z, !.reading = current_temp.val]
       ELSE /\ nothing
            /\ ev' = NoEv

\* the periodic _async_control_loop of zone z
async_control_loop(z, state) ==
    /\ hvac_mode[z] = "heat"
    /\ async_control_zone(z, hvac_mode[z], target_temperature[z], state)
    /\ UNCHANGED <<cfg, pwmVars, hvac_mode, target_temperature, boilerVars, sensorVars>>

\* async_set_temperature(temperature=temp); temp = 0 is a falsy argument
async_set_temperature(z, temp, state) ==
    /\ IF temp # 0
       THEN /\ target_temperature' = [target_temperature EXCEPT ![z] = temp]
            /\ async_control_zone(z, hvac_mode[z], temp, state)
       ELSE /\ ev' = NoEv
            /\ UNCHANGED <<target_temperature, is_heating, hass_heating, valve_cmd,
                           switch_cmd, zoneTasks>>
    /\ UNCHANGED <<cfg, pwmVars, hvac_mode, boilerVars, sensorVars>>

async_set_hvac_mode(z, mode, state) ==
    /\ hvac_mode' = [hvac_mode EXCEPT ![z] = mode]
    /\ IF hvac_mode[z] # mode
       THEN async_control_zone(z, mode, target_temperature[z], state)
       ELSE /\ ev' = NoEv
            /\ UNCHANGED <<is_heating, hass_heating, valve_cmd, switch_cmd, zoneTasks>>
    /\ UNCHANGED <<cfg, pwmVars, target_temperature, boilerVars, sensorVars>>

\* a suspended zone coroutine resumes when its service call returns
ResumeZone(i) ==
    LET t == zoneTasks[i]
    IN /\ IF t.kind = "on"
          THEN TurnOnValves(t.zone, t.idx, i)
          ELSE IF t.pc = "valve_sent"
          THEN TurnOffValves(t.zone, t.idx, i)
          ELSE /\ SetHeating(t.zone, FALSE)
               /\ zoneTasks' = DropTask(i)
               /\ UNCHANGED <<valve_cmd, switch_cmd>>
       /\ ev' = NoEv
       /\ UNCHANGED <<cfg, pwmVars, hvac_mode, target_temperature, boilerVars, sensorVars>>

\* what _async_control_zone decides: "on" to begin a turn-on, "off" to begin a
\* turn-off, "none"
Decision(z, mode, target, state) ==
    LET current_temp == current_temperature(state)
        should_heat == /\ current_temp.kind = "num"
                       /\ ShouldHeat(is_heating[z], current_temp.val, target,
                                     ZoneConfig(z).hysteresis)
    IN IF mode = "off" THEN (IF is_heating[z] THEN "off" ELSE "none")
       ELSE IF current_temp.kind # "num" THEN "none"
       ELSE IF should_heat /\ ~is_heating[z] THEN "on"
       ELSE IF ~should_heat /\ is_heating[z] THEN "off"
       ELSE "none"

\* a turn of this kind goes on, after valve number `from`, to a service call
HasCommand(z, kind, from) ==
    IF kind = "on" THEN NextOpen(z, from) # 0
    ELSE /\ kind = "off"
         /\ (NextClose(z, from) # 0 \/ (~is_any_zone_heating /\ cfg.boiler_switch))

\* An awaited hass.services.async_call raises: no handler is around it, the
\* exception leaves _async_turn_on_zone or _async_turn_off_zone and then
\* _async_control_zone, and nothing that follows the call runs.
Raised(z, kind) ==
    /\ ev' = [NoEv EXCEPT !.op = "raised", !.zone = z, !.demand = (kind = "on")]
    /\ UNCHANGED <<is_heating, hass_heating, valve_cmd, switch_cmd>>

\* the first service call of a periodic evaluation raises
ControlLoopRaises(z, state) ==
    LET kind == Decision(z, hvac_mode[z], target_temperature[z], state)
    IN /\ hvac_mode[z] = "heat"
       /\ (kind = "on" /\ cfg.boiler_switch) \/ HasCommand(z, kind, 0)
       /\ Raised(z, kind)
       /\ UNCHANGED <<cfg, pwmVars, hvac_mode, target_temperature, zoneTasks, boilerVars,
                      sensorVars>>

\* the first service call of the evaluation in async_set_hvac_mode raises
SetHvacModeRaises(z, mode, state) ==
    LET kind == Decision(z, mode, target_temperature[z], state)
    IN /\ hvac_mode[z] # mode
       /\ hvac_mode' = [hvac_mode EXCEPT ![z] = mode]
       /\ (kind = "on" /\ cfg.boiler_switch) \/ HasCommand(z, kind, 0)
       /\ Raised(z, kind)
       /\ UNCHANGED <<cfg, pwmVars, target_temperature, zoneTasks, boilerVars, sensorVars>>

\* a suspended zone coroutine resumes and its next service call raises
ResumeZoneRaises(i) ==
    LET t == zoneTasks[i]
    IN /\ ~(t.kind = "off" /\ t.pc = "boiler_sent")
       /\ HasCommand(t.zone, t.kind, t.idx)
       /\ zoneTasks' = RemoveAt(zoneTasks, i)
       /\ Raised(t.zone, t.kind)
       /\ UNCHANGED <<cfg, pwmVars, hvac_mode, target_temperature, boilerVars, sensorVars>>

\* a floor sensor changes state
FloorSensorChanged(f, s) ==
    /\ floor_state[f] # s
    /\ floor_state' = [floor_state EXCEPT ![f] = s]
    /\ ev' = NoEv
    /\ UNCHANGED <<cfg, pwmVars, boilerVars, zoneVars, outside_state>>

(***************************************************************************)
(* The PI-PWM regulator (pwm.py). Times are in seconds, on_time in          *)
(* hundredths of a second, duty cycles in hundredths of a percent, the      *)
(* integral in hundredths of a degree times seconds (6000 to the            *)
(* degree-minute); None is -1.                                              *)
(***************************************************************************)
cycle_time == 1200
min_on_time == 360
min_off_time == 300
kp == 30
ki == 2
pwm_valve_open_time == 120
pwm_valve_close_time == 120

Abs(x) == IF x < 0 THEN 0 - x ELSE x

\* PWMController.__init__ on its arguments, the times in seconds
PWMControllerWith(cycle, on, off, p, i, open, close) ==
    [cycle_time |-> cycle, min_on_time |-> on, min_off_time |-> off, kp |-> p, ki |-> i,
     valve_open_time |-> open, valve_close_time |-> close,
     integral |-> 0, last_update |-> -1, cycle_start |-> -1, duty_cycle |-> 0, on_time |-> 0]

\* PWMController.__init__ with its default arguments
PWMController ==
    PWMControllerWith(cycle_time, min_on_time, min_off_time, kp, ki,
                      pwm_valve_open_time, pwm_valve_close_time)

\* the integral left as the sum, without the anti-windup limit
IntegralUnlimited(pwm, error, dt_seconds) == pwm.integral + error * dt_seconds

\* self.integral += error * dt_minutes, then the anti-windup limit when ki != 0
Integral(pwm, error, dt_seconds) ==
    LET sum == pwm.integral + error * dt_seconds
        max_integral == 600000 \div Abs(pwm.ki)
    IN IF pwm.ki # 0 THEN Max(0 - max_integral, Min(max_integral, sum)) ELSE sum

\* the PI output on the integral of before the call
DutyOnOldIntegral(pwm, error, integral) ==
    Max(0, Min(10000, pwm.kp * error + (pwm.ki * pwm.integral) \div 60))

\* p_output + i_output clamped to 0..100 %
Duty(pwm, error, integral) ==
    Max(0, Min(10000, pwm.kp * error + (pwm.ki * integral) \div 60))

\* calculate_duty_cycle: the regulator after the call, its result in duty_cycle
calculate_duty_cycle(pwm, current_temp, target_temp, now) ==
    LET error == target_temp - current_temp
        dt_seconds == IF pwm.last_update = -1 THEN 60
                      ELSE Max(now - pwm.last_update, 6)
        integral == Integral(pwm, error, dt_seconds)
    IN [pwm EXCEPT !.integral = integral, !.duty_cycle = Duty(pwm, error, integral),
                   !.last_update = now]

\* the on-time of the duty cycle alone, without the valve dead time
CompensatedRaw(pwm, duty_cycle) == (pwm.cycle_time * duty_cycle) \div 100

\* raw_on + valve_dead_time
CompensatedOn(pwm, duty_cycle) ==
    (pwm.cycle_time * duty_cycle) \div 100 + (pwm.valve_open_time + pwm.valve_close_time) * 100

\* the minimum-on policy with its two outcomes exchanged
MinOnSwapped(pwm, duty_cycle, on) ==
    IF 0 < on /\ on < pwm.min_on_time * 100
    THEN (IF duty_cycle < 500 THEN pwm.min_on_time * 100 ELSE 0)
    ELSE on

\* "If too short, either go to 0 or min_on"
MinOn(pwm, duty_cycle, on) ==
    IF 0 < on /\ on < pwm.min_on_time * 100
    THEN (IF duty_cycle < 500 THEN 0 ELSE pwm.min_on_time * 100)
    ELSE on

\* the minimum-off policy that always leaves min_off_time
MinOffAlways(pwm, duty_cycle, on) ==
    LET off_time == pwm.cycle_time * 100 - on
    IN IF 0 < off_time /\ off_time < pwm.min_off_time * 100
       THEN (pwm.cycle_time - pwm.min_off_time) * 100
       ELSE on

\* "If off time would be too short, extend on time"
MinOff(pwm, duty_cycle, on) ==
    LET off_time == pwm.cycle_time * 100 - on
    IN IF 0 < off_time /\ off_time < pwm.min_off_time * 100
       THEN (IF duty_cycle > 9500 THEN pwm.cycle_time * 100
             ELSE (pwm.cycle_time - pwm.min_off_time) * 100)
       ELSE on

\* calculate_on_time: the regulator after the call, its result in on_time
calculate_on_time(pwm, duty_cycle) ==
    LET compensated_on ==
            MinOff(pwm, duty_cycle, MinOn(pwm, duty_cycle, CompensatedOn(pwm, duty_cycle)))
    IN [pwm EXCEPT !.on_time = Max(0, Min(pwm.cycle_time * 100, compensated_on))]

\* the ON test with <= for <
InOnPeriodInclusive(pwm, elapsed) == elapsed * 100 <= pwm.on_time

\* return elapsed < self.on_time
InOnPeriod(pwm, elapsed) == elapsed * 100 < pwm.on_time

\* should_be_on: the regulator after the call and the boolean it returns
should_be_on(pwm, now) ==
    LET started == IF pwm.cycle_start = -1 THEN now ELSE pwm.cycle_start
        renew == now - started >= pwm.cycle_time
        elapsed == IF renew THEN 0 ELSE now - started
    IN [pwm |-> [pwm EXCEPT !.cycle_start = IF renew THEN now ELSE started],
        on |-> InOnPeriod(pwm, elapsed)]

\* a caller computes the duty cycle at the current time, once at any instant
CalculateDutyCycle(current_temp, target_temp) ==
    /\ regulator.last_update < time
    /\ regulator' = calculate_duty_cycle(regulator, current_temp, target_temp, time)
    /\ ev' = [NoEv EXCEPT !.op = "duty"]
    /\ UNCHANGED <<cfg, boilerVars, zoneVars, sensorVars, time>>

\* a caller computes the on-time of a duty cycle
CalculateOnTime(duty_cycle) ==
    /\ regulator' = calculate_on_time(regulator, duty_cycle)
    /\ ev' = [NoEv EXCEPT !.op = "on_time", !.reading = duty_cycle]
    /\ UNCHANGED <<cfg, boilerVars, zoneVars, sensorVars, time>>

\* a caller asks should_be_on at the current time; ev keeps the answer and the
\* cycle_start of before the call
ShouldBeOn ==
    LET r == should_be_on(regulator, time)
    IN /\ regulator' = r.pwm
       /\ ev' = [NoEv EXCEPT !.op = "should_be_on", !.demand = r.on,
                             !.since = regulator.cycle_start]
       /\ UNCHANGED <<cfg, boilerVars, zoneVars, sensorVars, time>>

\* reset: the regulator after the call
reset(pwm) ==
    [pwm EXCEPT !.integral = 0, !.last_update = -1, !.cycle_start = -1, !.duty_cycle = 0]

\* a caller resets the regulator
Reset ==
    /\ regulator' = reset(regulator)
    /\ ev' = [NoEv EXCEPT !.op = "reset"]
    /\ UNCHANGED <<cfg, boilerVars, zoneVars, sensorVars, time>>

\* the clock moves on to t
Advance(t) ==
    /\ t > time
    /\ time' = t
    /\ ev' = NoEv
    /\ UNCHANGED <<cfg, boilerVars, zoneVars, sensorVars, regulator>>

(***************************************************************************)
(* Configurations and inputs                                               *)
(***************************************************************************)
NoFloor == ""
Valve(v, f, m) == [valve |-> v, floor_sensor |-> f, max_floor_temp |-> m]
Zone(name, entity_id, target, valves) ==
    [name |-> name, entity_id |-> entity_id, target_temp |-> target, hysteresis |-> 50,
     valves |-> valves]

\* z1 owns v1 (with a floor sensor) and v2, z2 owns v2: v2 is a shared valve.
SharedValves(z) ==
    IF z = "z1" THEN <<Valve("v1", "f1", 3000), Valve("v2", NoFloor, 3000)>>
    ELSE <<Valve("v2", NoFloor, 3000)>>

\* Zone names and the entity ids the host gave the zone entities:
\*   "plain"   names "A b" and "B", ids climate.a_b and climate.b
\*   "accent"  z2 is named with one accented letter, written "o'" here, which the
\*             host's slug writes without its accent: id climate.o
ZoneLayout(kind) ==
    [z \in Zones |->
        IF z = "z1"
        THEN Zone(<<"A", " ", "b">>, <<"climate.", "a", "_", "b">>, 2100, SharedValves(z))
        ELSE Zone(IF kind = "accent" THEN <<"o'">> ELSE <<"B">>,
                  IF kind = "accent" THEN <<"climate.", "o">> ELSE <<"climate.", "b">>,
                  2100, SharedValves(z))]

\* zones without valves, as the boiler controller sees them
BareZones ==
    [z \in Zones |-> Zone(<<z>>, <<"climate.", z>>, IF z = "z1" THEN 2100 ELSE 2300, <<>>)]

BoilerConfig(device, switch, min, max, zones) ==
    [opentherm_device |-> device, boiler_switch |-> switch,
     heating_base_offset |-> 300, flow_curve_offset |-> 0, weather_slope_heat |-> 25,
     min_water_temp |-> min, max_water_temp |-> max, zones |-> zones]

ZoneConfigs ==
    {BoilerConfig(FALSE, TRUE, 3000, 4500, ZoneLayout(k)) :
        k \in {"plain", "accent"}}

BoilerConfigs ==
    {BoilerConfig(TRUE, FALSE, 3000, 4500, BareZones),
     BoilerConfig(FALSE, FALSE, 3000, 4500, BareZones),
     BoilerConfig(TRUE, FALSE, 3200, 3300, BareZones)}

RoomStates == BadStates \cup {Num(2040), Num(2050), Num(2140), Num(2150)}
FloorStates == {Bad("unavailable"), Num(2990), Num(3000)}
OutsideStates == {Bad("unavailable"), Num(-1200)}
Modes == {"off", "heat"}

InitAll(configs, regulators) ==
    /\ cfg \in configs
    /\ thermostats = <<>>
    /\ target_flow_temp = 3000
    /\ is_boiler_on = FALSE
    /\ listening = FALSE
    /\ boilerTasks = <<>>
    /\ hvac_mode = [z \in Zones |-> "off"]
    /\ is_heating = [z \in Zones |-> FALSE]
    /\ target_temperature = [z \in Zones |-> cfg.zones[z].target_temp]
    /\ zoneTasks = <<>>
    /\ floor_state = [f \in FloorSensors |-> Num(2990)]
    /\ outside_state = Bad("unavailable")
    /\ regulator \in regulators
    /\ time = 0
    /\ hass_heating = [z \in Zones |-> FALSE]
    /\ valve_cmd = [v \in Valves |-> "none"]
    /\ switch_cmd = "none"
    /\ dev_mode = "none"
    /\ dev_setpoint = -1
    /\ fall = -1
    /\ ev = NoEv

\* the state after construction, the regulator with its default arguments
InitWith(configs) == InitAll(configs, {PWMController})

\* the operations of the zones, their room sensors in a state of `rooms`
ZoneNext(rooms, targets) ==
    \/ \E z \in Zones, s \in rooms : async_control_loop(z, s)
    \/ \E z \in Zones, t \in targets, s \in rooms : async_set_temperature(z, t, s)
    \/ \E z \in Zones, m \in Modes, s \in rooms : async_set_hvac_mode(z, m, s)

BoilerNext ==
    \/ \E s \in OutsideStates : async_setup(s)
    \/ \E s \in OutsideStates : OutsideTempChanged(s)
    \/ \E z \in Zones : register_thermostat(z)
    \/ async_update_boiler_state
    \/ \E i \in 1..Len(boilerTasks) : TurnOnSetTemperature(i)
    \/ \E i \in 1..Len(boilerTasks) : TurnOnFinish(i)
    \/ \E i \in 1..Len(boilerTasks) : TurnOffAfterWait(i)
    \/ \E i \in 1..Len(boilerTasks) : TurnOffFinish(i)
    \/ Tick

\* The zones with their valves, their floor sensors and the boiler switch.
SpecZones ==
    InitWith(ZoneConfigs) /\
    [][ \/ ZoneNext({Bad("unavailable"), Num(2040), Num(2150)}, {0, 2100})
        \/ \E i \in 1..Len(zoneTasks) : ResumeZone(i)
        \/ \E f \in FloorSensors, s \in FloorStates : FloorSensorChanged(f, s) ]_vars

\* The control decision of the zones on every kind of room reading.
SpecControl ==
    InitWith({BoilerConfig(FALSE, TRUE, 3000, 4500, ZoneLayout("plain"))}) /\
    [][ \/ ZoneNext(RoomStates, {0, 2100})
        \/ \E i \in 1..Len(zoneTasks) : ResumeZone(i) ]_vars

\* The zones with service calls that may raise.
SpecFailure ==
    InitWith({BoilerConfig(FALSE, TRUE, 3000, 4500, ZoneLayout("plain"))}) /\
    [][ \/ ZoneNext({Num(2040), Num(2150)}, {0})
        \/ \E i \in 1..Len(zoneTasks) : ResumeZone(i)
        \/ \E z \in Zones, s \in {Num(2040), Num(2150)} : ControlLoopRaises(z, s)
        \/ \E z \in Zones, m \in Modes, s \in {Num(2040), Num(2150)} :
              SetHvacModeRaises(z, m, s)
        \/ \E i \in 1..Len(zoneTasks) : ResumeZoneRaises(i) ]_vars

\* Regulators as their constructor makes them: the defaults, a one-hour cycle with
\* fast valves, one without integral action, a ten-minute cycle that is shorter
\* than min_on_time + min_off_time, and a min_on_time of three minutes, which the
\* valves' dead time exceeds.
Regulators ==
    {PWMController,
     PWMControllerWith(3600, 360, 300, 30, 2, 30, 30),
     PWMControllerWith(1200, 360, 300, 30, 0, 120, 120),
     PWMControllerWith(600, 360, 300, 30, 2, 120, 120),
     PWMControllerWith(1200, 180, 300, 30, 2, 120, 120)}

\* instants of the calls, room readings (the target is 21.0) and duty cycles handed
\* to calculate_on_time
Times == {0, 3, 60, 600, 1200, 1260, 3600}
RegulatorReadings == {1900, 2050, 2100, 2300}
Duties == {-3000, 0, 400, 500, 900, 1000, 5000, 5500, 6000, 8000, 9500, 9600, 10000, 12000}

\* The PI part of the regulator under any sequence of calls at increasing instants.
SpecDuty ==
    InitAll({BoilerConfig(FALSE, FALSE, 3000, 4500, BareZones)}, Regulators) /\
    [][ \/ \E c \in RegulatorReadings : CalculateDutyCycle(c, 2100)
        \/ \E t \in Times : Advance(t) ]_vars

\* The cycle of the regulator: on-times of given duty cycles and should_be_on as the
\* time passes.
SpecCycle ==
    InitAll({BoilerConfig(FALSE, FALSE, 3000, 4500, BareZones)}, Regulators) /\
    [][ \/ \E d \in Duties : CalculateOnTime(d)
        \/ ShouldBeOn
        \/ \E t \in Times : Advance(t) ]_vars

\* The cycle of the regulator with resets between its calls.
SpecReset ==
    InitAll({BoilerConfig(FALSE, FALSE, 3000, 4500, BareZones)}, Regulators) /\
    [][ \/ \E d \in Duties : CalculateOnTime(d)
        \/ ShouldBeOn
        \/ Reset
        \/ \E t \in Times : Advance(t) ]_vars

\* Zones of an entry with control_mode "pwm" from construction on: each zone is
\* switched to HEAT once and stays there.
SpecPwm ==
    InitWith({BoilerConfig(FALSE, TRUE, 3000, 4500, ZoneLayout("plain"))
                @@ [control_mode |-> "pwm"]}) /\
    [][ \/ \E z \in Zones, s \in RoomStates :
              hvac_mode[z] = "off" /\ async_set_hvac_mode(z, "heat", s)
        \/ \E z \in Zones, s \in RoomStates : async_control_loop(z, s)
        \/ \E z \in Zones, t \in {0, 2100}, s \in RoomStates : async_set_temperature(z, t, s)
        \/ \E i \in 1..Len(zoneTasks) : ResumeZone(i) ]_vars

\* The boiler controller and the zones it aggregates.
SpecBoiler ==
    InitWith(BoilerConfigs) /\
    [][BoilerNext \/ ZoneNext({Num(2040), Num(2150)}, {0})]_vars

\* The weather compensation of the boiler controller on every kind of outside
\* reading, with a heat-source device, over a stretch of time shorter than
\* valve_close_time: a shutdown that has started is still in its sleep.
FlowOutsideStates == BadStates \cup {Num(0), Num(-1200)}

SpecFlow ==
    InitWith({BoilerConfig(TRUE, FALSE, 3000, 4500, BareZones)}) /\
    [][ \/ \E s \in FlowOutsideStates : async_setup(s)
        \/ \E s \in FlowOutsideStates : OutsideTempChanged(s)
        \/ \E z \in Zones : register_thermostat(z)
        \/ async_update_boiler_state
        \/ \E i \in 1..Len(boilerTasks) : TurnOnSetTemperature(i)
        \/ \E i \in 1..Len(boilerTasks) : TurnOnFinish(i)
        \/ ZoneNext({Num(2040), Num(2150)}, {0}) ]_vars

(***************************************************************************)
(* Properties of the boiler controller (SpecBoiler)                        *)
(***************************************************************************)
\* The controller as the three-state machine: off is IDLE; on with a shutdown
\* coroutine in flight is PENDING_SHUTDOWN; on without one is RUNNING.
BoilerState ==
    IF ~is_boiler_on THEN "IDLE"
    ELSE IF ShutdownPending THEN "PENDING_SHUTDOWN" ELSE "RUNNING"

AnyZoneHeating == \E z \in Zones : is_heating[z]

\* C1: a safe shutdown whose wait saw demand again is cancelled: it never goes on to
\* command the heat source off or to mark the boiler off.
C1_RenewedDemandCancelsShutdown == ~(ev.op = "off" /\ ev.renewed)

C7_DemandIsOrOfZones ==
    ev.op = "update" =>
        /\ ev.demand = AnyZoneHeating
        /\ AnyZoneHeating =>
              (is_boiler_on \/ \E i \in 1..Len(boilerTasks) : boilerTasks[i].kind = "on")

\* C8: when a rising edge has marked the boiler on, the heat source was commanded to
\* heat, a set-point was pushed to it, and no shutdown is pending any more.
C8_RisingEdge ==
    (ev.op \in {"update", "on_done"} /\ ~ev.was_on /\ is_boiler_on) =>
        /\ ~ShutdownPending
        /\ cfg.opentherm_device => (dev_mode = "heat" /\ dev_setpoint # -1)

\* C9: the controller starts IDLE and moves only IDLE -> RUNNING, RUNNING ->
\* PENDING_SHUTDOWN, PENDING_SHUTDOWN -> RUNNING, and PENDING_SHUTDOWN -> IDLE by a
\* shutdown whose wait saw no renewed demand.
C9_StateMachine ==
    /\ BoilerState = "IDLE"
    /\ [][ \/ BoilerState' = BoilerState
           \/ BoilerState = "IDLE" /\ BoilerState' = "RUNNING"
           \/ BoilerState = "RUNNING" /\ BoilerState' = "PENDING_SHUTDOWN"
           \/ BoilerState = "PENDING_SHUTDOWN" /\ BoilerState' = "RUNNING"
           \/ /\ BoilerState = "PENDING_SHUTDOWN" /\ BoilerState' = "IDLE"
              /\ ev'.op \in {"off", "off_done"} /\ ~ev'.renewed ]_vars

\* C10: the target flow temperature lies in [min_water_temp, max_water_temp] in
\* every state, the initial one included.
C10_FlowTempWithinLimits ==
    cfg.min_water_temp <= target_flow_temp /\ target_flow_temp <= cfg.max_water_temp

(***************************************************************************)
(* Properties of the zones (SpecZones)                                     *)
(***************************************************************************)
Owns(y, v) == \E n \in 1..Len(ZoneValves(y)) : ZoneValves(y)[n].valve = v

\* A step of a `kind` coroutine ("on": turn-on, "off": turn-off) that went through
\* the valves of its zone after number `from` and commanded number k (0: none, up to
\* the last valve) satisfies Right(zone, from, k): a coroutine resuming, a coroutine
\* started and suspended, or one started and ended in the same step.
ValveLoopSteps(kind, Right(_, _, _)) ==
    /\ \A i \in 1..Len(zoneTasks) :
          (/\ zoneTasks[i].kind = kind
           /\ ~(kind = "off" /\ zoneTasks[i].pc = "boiler_sent")
           /\ ResumeZone(i))
          => Right(zoneTasks[i].zone, zoneTasks[i].idx,
                   IF Len(zoneTasks') = Len(zoneTasks) /\ zoneTasks'[i].pc = "valve_sent"
                   THEN zoneTasks'[i].idx ELSE 0)
    /\ (/\ Len(zoneTasks') = Len(zoneTasks) + 1
        /\ zoneTasks'[Len(zoneTasks')].kind = kind
        /\ ~(kind = "on" /\ zoneTasks'[Len(zoneTasks')].pc = "boiler_sent"))
       => Right(zoneTasks'[Len(zoneTasks')].zone, 0,
                IF zoneTasks'[Len(zoneTasks')].pc = "valve_sent"
                THEN zoneTasks'[Len(zoneTasks')].idx ELSE 0)
    /\ \A z \in Zones :
          (zoneTasks' = zoneTasks /\ is_heating[z] = (kind = "off") /\ is_heating'[z] = (kind = "on"))
          => Right(z, 0, 0)

LoopRange(z, from, k) == (from + 1)..(IF k = 0 THEN Len(ZoneValves(z)) ELSE k)

ClosedRight(z, from, k) ==
    \A j \in LoopRange(z, from, k) :
        LET v == ZoneValves(z)[j].valve IN
        IF \E y \in Zones \ {z} : is_heating[y] /\ Owns(y, v)
        THEN j # k /\ valve_cmd'[v] = valve_cmd[v]
        ELSE j = k /\ valve_cmd'[v] = "off"

\* C3: a turn-off leaves every valve of its zone alone that another zone which is
\* heating owns too, and commands every other valve of the zone closed.
C3_SharedValveArbitration == [][ValveLoopSteps("off", ClosedRight)]_vars

OpenedRight(z, from, k) ==
    \A j \in LoopRange(z, from, k) :
        LET valve_config == ZoneValves(z)[j] IN
        IF /\ valve_config.floor_sensor # ""
           /\ floor_state[valve_config.floor_sensor].kind = "num"
           /\ floor_state[valve_config.floor_sensor].val >= valve_config.max_floor_temp
        THEN j # k /\ valve_cmd'[valve_config.valve] = valve_cmd[valve_config.valve]
        ELSE j = k /\ valve_cmd'[valve_config.valve] = "on"

\* C4: a turn-on sends no open command to a valve whose floor reading is a number
\* at or above its max_floor_temp, and commands every other valve of the zone open.
C4_FloorSafety == [][ValveLoopSteps("on", OpenedRight)]_vars

\* z1 finished a turn-on with the floor of v1 at its limit: v1 never got a command,
\* v2 was opened.
C4_Witness ==
    /\ is_heating["z1"] /\ floor_state["f1"] = Num(3000)
    /\ valve_cmd["v1"] = "none" /\ valve_cmd["v2"] = "on"

\* A control evaluation of zone z in HEAT mode on the room sensor state s.
Evaluation(z, s) ==
    \/ async_control_loop(z, s)
    \/ hvac_mode[z] = "heat" /\ async_set_temperature(z, 2100, s)
    \/ hvac_mode[z] = "off" /\ async_set_hvac_mode(z, "heat", s)

StartsTurn(z, kind) ==
    \/ /\ Len(zoneTasks') = Len(zoneTasks) + 1
       /\ zoneTasks'[Len(zoneTasks')].kind = kind
       /\ zoneTasks'[Len(zoneTasks')].zone = z
    \/ zoneTasks' = zoneTasks /\ is_heating[z] = (kind = "off") /\ is_heating'[z] = (kind = "on")

\* C5: with a numeric reading in HEAT mode a zone that is not heating starts a
\* turn-on iff reading < target - hysteresis, a heating zone starts a turn-off iff
\* reading >= target + hysteresis, and nothing else changes is_heating.
C5_Hysteresis ==
    [][\A z \in Zones, r \in {2040, 2050, 2140, 2150} :
          Evaluation(z, Num(r)) =>
             LET target == target_temperature'[z]
                 hysteresis == ZoneConfig(z).hysteresis
             IN IF ~is_heating[z]
                THEN /\ StartsTurn(z, "on") <=> r < target - hysteresis
                     /\ ~StartsTurn(z, "off")
                ELSE /\ StartsTurn(z, "off") <=> r >= target + hysteresis
                     /\ ~StartsTurn(z, "on")]_vars

\* a heating zone in HEAT mode decided to stop on the reading 21.5
C5_Witness == ev.op = "stop" /\ ev.reading = 2150 /\ hvac_mode[ev.zone] = "heat"

\* C6: a control evaluation in HEAT mode on a room sensor that is missing, unknown,
\* unavailable or not a number changes no is_heating and sends no command.
C6_FailSoft ==
    [][\A z \in Zones, s \in BadStates :
          Evaluation(z, s) =>
             UNCHANGED <<is_heating, hass_heating, valve_cmd, switch_cmd, zoneTasks>>]_vars

\* a heating zone was evaluated without a reading and is heating still
C6_Witness == ev.op = "no_reading" /\ is_heating[ev.zone] /\ hvac_mode[ev.zone] = "heat"

(***************************************************************************)
(* Properties of the weather compensation (SpecFlow)                       *)
(***************************************************************************)
Clamp(x, lo, hi) == IF x < lo THEN lo ELSE IF x > hi THEN hi ELSE x

\* the largest of a set of targets, the fixed default 20.0 for the empty set
WarmestOf(targets) ==
    IF targets = {} THEN 2000 ELSE CHOOSE t \in targets : \A u \in targets : u <= t

\* the formula of the specification for the warmest target w and the reading outside
Compensated(w, outside) ==
    Clamp(w + cfg.heating_base_offset + ((w - outside) * cfg.weather_slope_heat) \div 100
            + cfg.flow_curve_offset,
          cfg.min_water_temp, cfg.max_water_temp)

RegisteredTargets == {target_temperature[thermostats[i]] : i \in 1..Len(thermostats)}

DemandingTargets ==
    {target_temperature[thermostats[i]] :
        i \in {j \in 1..Len(thermostats) : are_circuits_on(thermostats[j])}}

\* C11: after _async_update_flow_temperature has run on an outside reading, the
\* target flow temperature is clamp(w + heating_base_offset + (w - outside) *
\* weather_slope + flow_curve_offset, min_water_temp, max_water_temp), w being the
\* warmest target of the registered zones or the default.
C11_WeatherCompensation ==
    ev.op = "flow" =>
        target_flow_temp = Compensated(WarmestOf(RegisteredTargets), ev.reading)

\* the example of the specification: w = 21, outside = 0 gives 29.25, clamped to 30.0
C11_Witness ==
    /\ ev.op = "flow" /\ ev.reading = 0 /\ thermostats = <<"z1">>
    /\ target_flow_temp = 3000

\* C12: the warmest target of the weather compensation is the largest target of the
\* zones that are demanding heat, and the default when none is.
C12_WarmestOfDemandingZones ==
    ev.op = "flow" =>
        target_flow_temp = Compensated(WarmestOf(DemandingTargets), ev.reading)

\* C13: when async_update_boiler_state has processed a change of demand, the target
\* flow temperature is the formula on the current outside reading and the zones
\* demanding heat now.
C13_RecomputedOnDemandChange ==
    (/\ ev.op = "update" /\ ev.demand # ev.was_on
     /\ listening /\ outside_state.kind = "num")
    => target_flow_temp = Compensated(WarmestOf(DemandingTargets), outside_state.val)

\* C14: _async_update_flow_temperature on an outside sensor that is missing,
\* unknown, unavailable or not a number leaves the target flow temperature as it
\* was and sends nothing to the heat source.
C14_OutsideFailSoft ==
    [][\A s \in BadStates :
          (async_setup(s) \/ (listening /\ OutsideTempChanged(s)))
          => UNCHANGED <<target_flow_temp, dev_setpoint, dev_mode, boilerTasks, is_boiler_on>>]_vars

\* the boiler is on at a computed set-point and the outside reading went away
C14_Witness ==
    /\ ev.op = "no_outside" /\ is_boiler_on
    /\ target_flow_temp = 3475 /\ dev_setpoint = 3475

(***************************************************************************)
(* Properties of concurrent zone evaluations and of the valves at rest     *)
(***************************************************************************)
\* C15: the evaluations of the zones never overlap: while one evaluation has issued
\* commands and has not yet updated its is_heating flag, no other evaluation is
\* running on the shared valves and the boiler switch.
C15_TickAtomicity == Len(zoneTasks) <= 1

\* the floor reading of valve number k of zone z is a number at or above its ceiling
Tripped(z, k) ==
    LET c == ZoneValves(z)[k] IN
    /\ c.floor_sensor # NoFloor
    /\ floor_state[c.floor_sensor].kind = "num"
    /\ floor_state[c.floor_sensor].val >= c.max_floor_temp

\* zone z is heating and owns v through a valve entry that is not tripped
Feeds(z, v) ==
    /\ is_heating[z]
    /\ \E k \in 1..Len(ZoneValves(z)) : ZoneValves(z)[k].valve = v /\ ~Tripped(z, k)

\* C16: when no evaluation is in flight, a valve is commanded open exactly when some
\* zone that owns it is heating and its floor reading is not at or above the ceiling.
C16_ValveIsOrOfOwners ==
    zoneTasks = <<>> =>
        \A v \in Valves : valve_cmd[v] = "on" <=> \E z \in Zones : Feeds(z, v)

\* C17: a valve whose floor reading is at or above its ceiling is not commanded open.
C17_StandingOverride ==
    \A z \in Zones : \A k \in 1..Len(ZoneValves(z)) :
        Tripped(z, k) => valve_cmd[ZoneValves(z)[k].valve] # "on"

\* the valve loop of a turn-on of z from valve number `from` to the command of number
\* k: it passed over tripped valves only, commanded k open, touched nothing else, and
\* at its end (k = 0) set the flag of z
FrameRight(z, from, k) ==
    /\ \A j \in LoopRange(z, from, k) : j # k => Tripped(z, j)
    /\ k # 0 => ~Tripped(z, k) /\ valve_cmd'[ZoneValves(z)[k].valve] = "on"
    /\ k = 0 => is_heating'[z]
    /\ \A v \in Valves : (k = 0 \/ v # ZoneValves(z)[k].valve) => valve_cmd'[v] = valve_cmd[v]
    /\ \A y \in Zones \ {z} : is_heating'[y] = is_heating[y]
    /\ switch_cmd' = switch_cmd

\* C18: a turn-on commands the boiler switch on, then every valve of its zone that
\* is not tripped, whatever valves are tripped; it ends with is_heating true and
\* changes no valve of another zone and no flag of another zone.
C18_TripIsLocal ==
    [][ /\ (/\ Len(zoneTasks') = Len(zoneTasks) + 1
            /\ zoneTasks'[Len(zoneTasks')].kind = "on"
            /\ zoneTasks'[Len(zoneTasks')].pc = "boiler_sent")
           => /\ switch_cmd' = "on"
              /\ valve_cmd' = valve_cmd
              /\ is_heating' = is_heating
        /\ ValveLoopSteps("on", FrameRight) ]_vars

\* z1 alone finished a turn-on with v1 tripped: the switch is on, the shared valve v2
\* is open, z2 was left as it stood.
C18_Witness ==
    /\ zoneTasks = <<>> /\ floor_state["f1"] = Num(3000)
    /\ is_heating["z1"] /\ switch_cmd = "on"
    /\ valve_cmd["v1"] = "none" /\ valve_cmd["v2"] = "on"
    /\ ~is_heating["z2"] /\ hvac_mode["z2"] = "off"

(***************************************************************************)
(* Properties of the control mode and of is_heating                        *)
(***************************************************************************)
\* what a regulator fresh from its constructor answers at its first evaluation
FirstPwmDemand(current_temp, target_temp) ==
    LET a == calculate_duty_cycle(PWMController, current_temp, target_temp, 0)
        b == calculate_on_time(a, a.duty_cycle)
    IN should_be_on(b, 0).on

\* C19: in an entry with control_mode "pwm", the first evaluation of a zone, on a
\* numeric reading, wants heat exactly when the regulator's should_be_on says so,
\* after calculate_duty_cycle on (target - current) and calculate_on_time.
C19_PwmDemand ==
    [][\A z \in Zones, s \in RoomStates :
          (/\ cfg.control_mode = "pwm" /\ current_temperature(s).kind = "num"
           /\ hvac_mode[z] = "off" /\ async_set_hvac_mode(z, "heat", s))
          => LET started == /\ Len(zoneTasks') = Len(zoneTasks) + 1
                            /\ zoneTasks'[Len(zoneTasks')].zone = z
                            /\ zoneTasks'[Len(zoneTasks')].kind = "on"
             IN (is_heating'[z] \/ started)
                  = FirstPwmDemand(current_temperature(s).val, target_temperature[z])]_vars

\* C20: every zone starts with is_heating false, and is_heating of a zone changes
\* only in an evaluation that applied the decision rule to a numeric reading of that
\* zone (a start or a stop); nothing else writes it.
C20_OnlyDecisionRule ==
    /\ \A z \in Zones : ~is_heating[z]
    /\ [][\A z \in Zones :
            is_heating'[z] # is_heating[z]
            => ev'.op \in {"start", "stop"} /\ ev'.zone = z]_vars

(***************************************************************************)
(* Properties of the PI-PWM regulator (SpecDuty, SpecCycle)                *)
(***************************************************************************)
\* C21: a call of calculate_duty_cycle adds error * dt to the integral (dt one minute
\* on the first call, the time since the last call afterwards, at least a tenth of a
\* minute; the sum within the anti-windup limit) and returns
\* clamp(Kp * error + Ki * integral, 0, 100) on the new integral.
C21_PIDuty ==
    [][\A c \in RegulatorReadings :
          CalculateDutyCycle(c, 2100)
          => LET error == 2100 - c
                 dt == IF regulator.last_update = -1 THEN 60
                       ELSE IF time - regulator.last_update < 6 THEN 6
                       ELSE time - regulator.last_update
                 sum == regulator.integral + error * dt
                 limit == 600000 \div Abs(regulator.ki)
                 new == IF regulator.ki = 0 THEN sum ELSE Clamp(sum, 0 - limit, limit)
             IN /\ regulator'.integral = new
                /\ regulator'.duty_cycle * 60
                     = Clamp(60 * regulator.kp * error + regulator.ki * new, 0, 600000)
                /\ regulator'.duty_cycle \in 0..10000]_vars

\* the example of the specification: error 2.0, Kp 30, Ki 2, first call: integral 2.0
\* degree-minutes, duty 64 %
C21_Witness ==
    /\ ev.op = "duty" /\ regulator.kp = 30 /\ regulator.ki = 2
    /\ regulator.last_update = 0 /\ regulator.integral = 12000
    /\ regulator.duty_cycle = 6400

\* C22: with Ki # 0 the integral stays within -100/|Ki| .. 100/|Ki| degree-minutes.
C22_AntiWindup ==
    regulator.ki # 0 => Abs(regulator.integral) * Abs(regulator.ki) <= 600000

\* a large error lasted: the integral stands at its limit of 50 degree-minutes
C22_Witness ==
    /\ ev.op = "duty" /\ regulator.ki = 2 /\ regulator.integral = 300000
    /\ regulator.last_update = 3600

\* cycle_time * duty / 100 + valve_open_time + valve_close_time, in hundredths of a
\* second, for a duty cycle d in hundredths of a percent
DeadTimeCompensated(d) ==
    (regulator.cycle_time * d) \div 100
        + (regulator.valve_open_time + regulator.valve_close_time) * 100

\* the on-time the minimum-on policy leaves
AfterMinOn(d) ==
    IF 0 < DeadTimeCompensated(d) /\ DeadTimeCompensated(d) < regulator.min_on_time * 100
    THEN (IF d < 500 THEN 0 ELSE regulator.min_on_time * 100)
    ELSE DeadTimeCompensated(d)

ShortOff(on) ==
    /\ 0 < regulator.cycle_time * 100 - on
    /\ regulator.cycle_time * 100 - on < regulator.min_off_time * 100

\* C23: calculate_on_time returns cycle_time * duty / 100 + valve_open_time +
\* valve_close_time whenever that is neither below min_on_time, nor leaves an off-time
\* below min_off_time, nor exceeds the cycle.
C23_DeadTimeCompensation ==
    ev.op = "on_time" =>
        LET on == DeadTimeCompensated(ev.reading) IN
        (/\ on >= regulator.min_on_time * 100
         /\ ~ShortOff(on)
         /\ on <= regulator.cycle_time * 100)
        => regulator.on_time = on

\* the example of the specification: cycle 20 min, duty 50 %, valves 120 s + 120 s:
\* 600 s + 240 s
C23_Witness ==
    /\ ev.op = "on_time" /\ ev.reading = 5000 /\ regulator.cycle_time = 1200
    /\ regulator.valve_open_time = 120 /\ regulator.valve_close_time = 120
    /\ regulator.on_time = 84000

\* C24: a compensated on-time above 0 and below min_on_time becomes 0 when the duty
\* cycle is below 5 % and min_on_time otherwise (and is returned so unless the
\* off-time it leaves is short).
C24_MinimumOn ==
    ev.op = "on_time" =>
        LET d == ev.reading
            on == DeadTimeCompensated(d) IN
        (0 < on /\ on < regulator.min_on_time * 100)
        => /\ AfterMinOn(d) = IF d < 500 THEN 0 ELSE regulator.min_on_time * 100
           /\ ~ShortOff(AfterMinOn(d)) => regulator.on_time = AfterMinOn(d)

\* a duty cycle of 5 % of an hour with fast valves: 180 s + 60 s becomes min_on_time
C24_Witness ==
    /\ ev.op = "on_time" /\ ev.reading = 500 /\ regulator.cycle_time = 3600
    /\ regulator.on_time = 36000

\* C25: when the off-time left after the minimum-on policy is above 0 and below
\* min_off_time, the on-time becomes the whole cycle for a duty cycle above 95 % and
\* cycle_time - min_off_time otherwise; the on-time returned is within 0..cycle_time.
C25_MinimumOff ==
    ev.op = "on_time" =>
        /\ ShortOff(AfterMinOn(ev.reading))
           => regulator.on_time = IF ev.reading > 9500 THEN regulator.cycle_time * 100
                                  ELSE (regulator.cycle_time - regulator.min_off_time) * 100
        /\ regulator.on_time \in 0..(regulator.cycle_time * 100)

\* a duty cycle of 96 % of an hour with fast valves leaves 84 s: the whole cycle is on
C25_Witness ==
    /\ ev.op = "on_time" /\ ev.reading = 9600 /\ regulator.cycle_time = 3600
    /\ regulator.on_time = 360000

\* C26: should_be_on starts a cycle at its first call, starts a new one at a call
\* that comes cycle_time or more after the start of the cycle, and answers whether
\* the time elapsed in the cycle is below the on-time.
C26_CycleFraming ==
    ev.op = "should_be_on" =>
        LET start == IF ev.since = -1 \/ time - ev.since >= regulator.cycle_time
                     THEN time ELSE ev.since
        IN /\ regulator.cycle_start = start
           /\ ev.demand = ((time - start) * 100 < regulator.on_time)

\* a call twenty minutes after the start of a twenty-minute cycle starts the next one
\* in its ON part
C26_Witness ==
    /\ ev.op = "should_be_on" /\ ev.since = 0 /\ time = 1200
    /\ regulator.cycle_time = 1200 /\ regulator.cycle_start = 1200 /\ ev.demand

(***************************************************************************)
(* Properties of the shutdown paths and of failing commands                *)
(***************************************************************************)
\* C27: the wait of a safe shutdown blocks nothing: async_update_boiler_state runs
\* while it is pending, and when such an update finds demand with the boiler still
\* on it cancels the shutdown, so that none is left in its wait.
C27_WaitDoesNotBlock ==
    (ev.op = "update" /\ ev.demand /\ ev.was_on)
    => ~\E i \in 1..Len(boilerTasks) : Sleeping(boilerTasks[i])

\* a tick of zone z begins a turn
Retry(z) ==
    \E s \in {Num(2040), Num(2150)} : async_control_loop(z, s) /\ zoneTasks' # zoneTasks

\* C28: after a service call of an evaluation of a zone has failed (a turn-off, or a
\* turn-on of a zone that is still in mode HEAT), the zone has not recorded the
\* transition and its next tick attempts the transition again.
C28_FailedCommandRetried ==
    (/\ ev.op = "raised" /\ Len(zoneTasks) < MaxZoneTasks
     /\ ev.demand => hvac_mode[ev.zone] = "heat")
    => /\ is_heating[ev.zone] = ~ev.demand
       /\ ENABLED Retry(ev.zone)

\* C29: the boiler switch is not commanded off in the step in which a turn-off comes
\* back from a close command to a valve: between the last close command and the
\* switch-off the valves get their time to close.
C29_SwitchOffAfterValvesClosed ==
    [][\A i \in 1..Len(zoneTasks) :
          (/\ zoneTasks[i].kind = "off" /\ zoneTasks[i].pc = "valve_sent"
           /\ ResumeZone(i))
          => ~(/\ Len(zoneTasks') = Len(zoneTasks)
               /\ zoneTasks'[i].pc = "boiler_sent"
               /\ switch_cmd' = "off")]_vars

\* C30: when no evaluation is in flight and no zone is heating, the last command the
\* boiler switch received is not turn_on.
C30_SwitchOffWhenIdle ==
    (zoneTasks = <<>> /\ \A z \in Zones : ~is_heating[z]) => switch_cmd # "on"

(***************************************************************************)
(* Properties of zones that start and stop at the same time                *)
(***************************************************************************)
Stopping(z) == \E i \in 1..Len(zoneTasks) : zoneTasks[i].zone = z /\ zoneTasks[i].kind = "off"
Starting(z) == \E i \in 1..Len(zoneTasks) : zoneTasks[i].zone = z /\ zoneTasks[i].kind = "on"

\* C31: the last command of the boiler switch is not turn_off while a zone is heating
\* (and is not the zone that is stopping) or is in a turn-on that has commanded the
\* boiler switch on.
C31_NoSwitchOffUnderDemand ==
    switch_cmd = "off"
    => \A z \in Zones : ~Starting(z) /\ (is_heating[z] => Stopping(z))

\* no evaluation of a zone is in flight
Quiescent == zoneTasks = <<>>

\* Zones whose own evaluations never overlap: an evaluation of a zone begins when no
\* coroutine of that zone is suspended, while the evaluations of different zones
\* interleave at their awaits.
SpecPeers ==
    InitWith({BoilerConfig(FALSE, TRUE, 3000, 4500, ZoneLayout("plain"))}) /\
    [][ \/ \E z \in Zones, s \in {Num(2040), Num(2150)} :
              ~Starting(z) /\ ~Stopping(z) /\ async_control_loop(z, s)
        \/ \E z \in Zones, m \in Modes, s \in {Num(2040), Num(2150)} :
              ~Starting(z) /\ ~Stopping(z) /\ async_set_hvac_mode(z, m, s)
        \/ \E i \in 1..Len(zoneTasks) : ResumeZone(i)
        \/ \E f \in FloorSensors, s \in FloorStates : FloorSensorChanged(f, s) ]_vars

\* C32: when no evaluation is in flight and no zone is heating, no valve has open as
\* its last command.
C32_NoValveLeftOpen ==
    (Quiescent /\ \A z \in Zones : ~is_heating[z]) => \A v \in Valves : valve_cmd[v] # "on"

\* C33: when no evaluation is in flight, every valve without a floor sensor of a zone
\* that is heating has open as its last command: a peer that stopped meanwhile has not
\* closed it.
C33_OpenedValveStaysOpen ==
    \A z \in Zones :
        (Quiescent /\ is_heating[z])
        => \A k \in 1..Len(ZoneValves(z)) :
              ZoneValves(z)[k].floor_sensor = NoFloor
              => valve_cmd[ZoneValves(z)[k].valve] = "on"

\* valve_switch is a valve of zone z only
OwnValve(z, valve_switch) ==
    /\ \E k \in 1..Len(ZoneValves(z)) : ZoneValves(z)[k].valve = valve_switch
    /\ \A y \in Zones \ {z} :
          \A k \in 1..Len(ZoneValves(y)) : ZoneValves(y)[k].valve # valve_switch

\* C34: a zone in mode OFF with no evaluation of its own in flight is not heating, and
\* no valve of its own has open as its last command.
C34_ModeOffMeansNotHeating ==
    \A z \in Zones :
        (hvac_mode[z] = "off" /\ ~Starting(z) /\ ~Stopping(z))
        => /\ ~is_heating[z]
           /\ \A v \in Valves : OwnValve(z, v) => valve_cmd[v] # "on"

(***************************************************************************)
(* Properties of one evaluation                                            *)
(***************************************************************************)
\* a control evaluation of zone z begins: a tick, a new target or a new mode
AnyEvaluation(z) ==
    \E s \in RoomStates :
        \/ async_control_loop(z, s)
        \/ async_set_temperature(z, 2100, s)
        \/ \E m \in Modes : async_set_hvac_mode(z, m, s)

\* C35: an evaluation that is over in one step and leaves is_heating as it was has
\* sent no command; an evaluation that sends a command began a turn-on with the
\* zone not heating or a turn-off with the zone heating, and ends with is_heating
\* flipped; no other step sends a command.
C35_EdgeTriggered ==
    [][/\ \A z \in Zones :
             (AnyEvaluation(z) /\ is_heating'[z] = is_heating[z])
             => \/ UNCHANGED <<valve_cmd, switch_cmd, zoneTasks>>
                \/ StartsTurn(z, IF is_heating[z] THEN "off" ELSE "on")
       /\ Len(zoneTasks') = Len(zoneTasks) + 1
          => LET t == zoneTasks'[Len(zoneTasks')]
             IN AnyEvaluation(t.zone) /\ is_heating[t.zone] = (t.kind = "off")
       /\ \A i \in 1..Len(zoneTasks) :
             (ResumeZone(i) /\ Len(zoneTasks') < Len(zoneTasks))
             => is_heating'[zoneTasks[i].zone] = (zoneTasks[i].kind = "on")
       /\ (valve_cmd' # valve_cmd \/ switch_cmd' # switch_cmd)
          => \/ Len(zoneTasks') = Len(zoneTasks) + 1
             \/ \E i \in 1..Len(zoneTasks) : ResumeZone(i)]_vars

\* a heating zone decided to stop and has sent the first command of its turn-off
C35_Witness ==
    /\ ev.op = "stop" /\ Stopping(ev.zone) /\ is_heating[ev.zone]
    /\ \E v \in Valves : Owns(ev.zone, v) /\ valve_cmd[v] = "off"

(***************************************************************************)
(* Properties of the boiler controller between its awaits                  *)
(***************************************************************************)
\* C36: at most one safe shutdown of the boiler is in flight.
C36_OneShutdownInFlight ==
    Cardinality({i \in 1..Len(boilerTasks) : boilerTasks[i].kind = "off"}) <= 1

\* C37: with a heat-source device, the boiler on and no boiler coroutine in flight,
\* the last set-point the device received is the target flow temperature.
C37_SetpointConsistent ==
    (is_boiler_on /\ cfg.opentherm_device /\ boilerTasks = <<>>)
    => dev_setpoint = target_flow_temp

(***************************************************************************)
(* Properties of the results of the regulator (SpecCycle)                  *)
(***************************************************************************)
\* C38: with min_on_time and min_off_time no longer than the cycle, the on-time
\* calculate_on_time returns for a duty cycle of 0..100 % is not strictly between 0
\* and min_on_time, and the off-time it leaves is not strictly between 0 and
\* min_off_time.
C38_MinimumTimesHonoured ==
    (/\ ev.op = "on_time" /\ ev.reading \in 0..10000
     /\ regulator.min_on_time <= regulator.cycle_time
     /\ regulator.min_off_time <= regulator.cycle_time)
    => LET off_time == regulator.cycle_time * 100 - regulator.on_time
       IN /\ ~(0 < regulator.on_time /\ regulator.on_time < regulator.min_on_time * 100)
          /\ ~(0 < off_time /\ off_time < regulator.min_off_time * 100)

\* C39: calculate_on_time(0) returns an on-time of 0.
C39_ZeroDutyZeroOnTime ==
    (ev.op = "on_time" /\ ev.reading = 0) => regulator.on_time = 0

\* C40: right after reset should_be_on answers False at every instant from now on, as
\* it does on a regulator that was just constructed.
C40_ResetIsInitialState ==
    ev.op = "reset"
    => \A t \in Times : t >= time => ~should_be_on(regulator, t).on

====
